---------------------------- MODULE Spec2Model ----------------------------
(***************************************************************************)
(* Model of src/rotation_transformation.py: node extraction, rigid         *)
(* rotation, node renumbering/merging and the NURBS patch block            *)
(* decoder/replicator.                                                     *)
(*                                                                         *)
(* Text is modelled as a sequence of lines, a line as the sequence of its  *)
(* whitespace-separated tokens (the result of str.split()).  A token is a  *)
(* record [k, v]: k = "i" an integer literal of value v, k = "r" a real    *)
(* literal that int() rejects and float() accepts, of value v * 10^-7,     *)
(* k = "w" a word neither accepts (for instance the "$#" comment marker).  *)
(* A float value is the integer number of 10^-7 units it holds.            *)
(***************************************************************************)
EXTENDS Integers, Sequences, FiniteSets, TLC

(* ----------------------------- bounds ---------------------------------- *)
MaxLines == 3      \* lines in the body of a *NODE section
MaxNodes == 2      \* nodes in a node table handed to the renumberer
MaxAngles == 3     \* rotation angles in one batch
MaxPatches == 2    \* patches laid out in a patch section

(* ----------------------------- tokens ---------------------------------- *)
I(n) == [k |-> "i", v |-> n]
R(n) == [k |-> "r", v |-> n]
W == [k |-> "w", v |-> 0]

\* int(tok) succeeds
IsInt(tok) == tok.k = "i"
\* float(tok) succeeds
IsFloat(tok) == tok.k \in {"i", "r"}
\* float(tok), in units of 10^-7
FloatOf(tok) == IF tok.k = "i" THEN tok.v * 10000000 ELSE tok.v
\* int(tok)
IntOf(tok) == tok.v

\* round(x, 6): to the nearest multiple of 10^-6, ties to even
Round6(x) ==
    LET q == x \div 10
        r == x % 10
    IN  IF r < 5 THEN q * 10
        ELSE IF r > 5 THEN (q + 1) * 10
        ELSE IF q % 2 = 0 THEN q * 10 ELSE (q + 1) * 10

\* parts[a:b] of Python (0-based, end exclusive, clipped to the list)
Slice(s, a, b) ==
    LET hi == IF b < Len(s) THEN b ELSE Len(s)
    IN  IF a >= hi THEN << >> ELSE SubSeq(s, a + 1, hi)

(* ------------------- extract_node_coordinates -------------------------- *)
\* re.search found no *NODE section / a section with this body
NoSection == [found |-> FALSE, body |-> << >>]
Found(body) == [found |-> TRUE, body |-> body]

\* group(1).strip().split('\n'): blank lines at both ends of the body are
\* stripped; what is left of an all-blank body is the single empty line ''
RECURSIVE StripLeft(_)
StripLeft(body) ==
    IF body = << >> THEN << >>
    ELSE IF Head(body) = << >> THEN StripLeft(Tail(body)) ELSE body

RECURSIVE StripRight(_)
StripRight(body) ==
    IF body = << >> THEN << >>
    ELSE IF body[Len(body)] = << >> THEN StripRight(SubSeq(body, 1, Len(body) - 1))
    ELSE body

node_lines_of(body) ==
    LET s == StripRight(StripLeft(body))
    IN  IF s = << >> THEN << << >> >> ELSE s

\* the body of the try block for one line: "IndexError" escapes, "skip" is
\* the ValueError caught by the except clause
ParseNodeLine(parts) ==
    IF Len(parts) = 0 THEN [st |-> "IndexError", node |-> << >>]
    ELSE IF ~IsInt(parts[1]) THEN [st |-> "skip", node |-> << >>]
    ELSE LET c == Slice(parts, 1, 4)
         IN  IF Len(c) # 3 \/ \E n \in 1..Len(c) : ~IsFloat(c[n])
             THEN [st |-> "skip", node |-> << >>]
             ELSE [st |-> "ok",
                   node |-> <<IntOf(parts[1]), FloatOf(c[1]), FloatOf(c[2]), FloatOf(c[3])>>]

RECURSIVE ExtractLoop(_, _)
ExtractLoop(lines, acc) ==
    IF lines = << >> THEN [st |-> "returned", nodes |-> acc]
    ELSE LET p == ParseNodeLine(Head(lines))
         IN  IF p.st = "IndexError" THEN [st |-> "IndexError", nodes |-> << >>]
             ELSE IF p.st = "skip" THEN ExtractLoop(Tail(lines), acc)
             ELSE ExtractLoop(Tail(lines), Append(acc, p.node))

extract_node_coordinates(content) ==
    IF ~content.found THEN [st |-> "returned", nodes |-> << >>]
    ELSE ExtractLoop(node_lines_of(content.body), << >>)

(* --------------------------- transform_nodes --------------------------- *)
Axes == {"x", "y", "z"}

\* math.cos / math.sin at the quarter turns (the 6e-17 floating residue of
\* cos(pi/2) vanishes in round(.., 6) when the node is written)
Cos4(a) == CASE a = 0 -> 1 [] a = 90 -> 0 [] a = 180 -> -1 [] a = 270 -> 0
Sin4(a) == CASE a = 0 -> 0 [] a = 90 -> 1 [] a = 180 -> 0 [] a = 270 -> -1

RotateNode(nd, a, axis) ==
    LET x == nd[2]
        y == nd[3]
        z == nd[4]
    IN  CASE axis = "x" -> <<nd[1], x, y * Cos4(a) - z * Sin4(a), y * Sin4(a) + z * Cos4(a)>>
          [] axis = "y" -> <<nd[1], x * Cos4(a) + z * Sin4(a), y, (0 - x) * Sin4(a) + z * Cos4(a)>>
          [] axis = "z" -> <<nd[1], x * Cos4(a) - y * Sin4(a), x * Sin4(a) + y * Cos4(a), z>>

\* the axis is tested inside the per-node loop (lines 54-74)
transform_nodes(nodes, a, axis) ==
    IF nodes # << >> /\ axis \notin Axes
    THEN [st |-> "InvalidAxis", nodes |-> << >>]
    ELSE [st |-> "returned", nodes |-> [n \in 1..Len(nodes) |-> RotateNode(nodes[n], a, axis)]]

(* ------------------- update_node_numbers / merge_nodes ----------------- *)
update_node_numbers(tnodes, max_node_number) ==
    [n \in 1..Len(tnodes) |->
        <<max_node_number + n, tnodes[n][2], tnodes[n][3], tnodes[n][4]>>]

\* list.sort(key = id) is stable
RECURSIVE InsertById(_, _)
InsertById(sorted, nd) ==
    IF sorted = << >> THEN <<nd>>
    ELSE IF sorted[Len(sorted)][1] <= nd[1] THEN Append(sorted, nd)
    ELSE Append(InsertById(SubSeq(sorted, 1, Len(sorted) - 1), nd), sorted[Len(sorted)])

RECURSIVE SortById(_)
SortById(s) ==
    IF s = << >> THEN << >>
    ELSE InsertById(SortById(SubSeq(s, 1, Len(s) - 1)), s[Len(s)])

merge_nodes(original_nodes, tnodes) == SortById(original_nodes \o tnodes)

MaxId(nodes) == CHOOSE m \in {nodes[n][1] : n \in 1..Len(nodes)} :
                    \A n \in 1..Len(nodes) : nodes[n][1] <= m

\* the rows of the *NODE keyword string (line 138)
NodeRows(nodes) ==
    [n \in 1..Len(nodes) |->
        <<nodes[n][1], Round6(nodes[n][2]), Round6(nodes[n][3]), Round6(nodes[n][4])>>]


(* ------------------- merge_nurbs_patches: decoding --------------------- *)
\* re.search found no *ELEMENT_SOLID_NURBS_PATCH line (None)
NoKeyword == NoSection

\* line.startswith('$#'): the comment marker is the only word token used
IsComment(line) == Len(line) > 0 /\ line[1].k = "w"
IsData(line) == ~IsComment(line)

\* element_section.strip().split('\n') without the '$#' lines (155-158)
element_lines_of(body) == SelectSeq(node_lines_of(body), IsData)

AllInt(toks) == \A n \in 1..Len(toks) : IsInt(toks[n])
AllFloat(toks) == \A n \in 1..Len(toks) : IsFloat(toks[n])

\* the tokens of lines[a:b], flattened
RECURSIVE Flatten(_)
Flatten(ls) == IF ls = << >> THEN << >> ELSE Head(ls) \o Flatten(Tail(ls))

LineTokens(lines, a, b) == Flatten(Slice(lines, a, b))

Floats(toks) == [n \in 1..Len(toks) |-> FloatOf(toks[n])]

NonZero(x) == x # 0

\* block_line before patch j is decoded, from the values the previous
\* iteration left in the loop variables (lines 173-176)
NextBlockLine(tkend, pnpr, pnps, pnpt, pwf1) ==
    IF pwf1 = 1
    THEN tkend + ((pnpr \div 8) + 1) * 2 * (pnps * pnpt)
    ELSE tkend + (pnps * pnpt)

Failed(kind) == [st |-> kind]

\* a knot vector cut to the n + p + 1 values the header announces
KnotVector_Truncated(lines, a, b, want) == Slice(LineTokens(lines, a, b), 0, want)

\* the knot list comprehensions (192-194): every token of the knot lines;
\* rk, sk, tk only fix the number of lines
KnotVector(lines, a, b, want) == LineTokens(lines, a, b)

\* a decoder that reads a missing second header line as a line of zeros
HeaderLines_Lenient(lines, bl) ==
    IF bl >= Len(lines) THEN Failed("IndexError")
    ELSE [st |-> "ok", l1 |-> lines[bl + 1],
          l2 |-> IF bl + 1 < Len(lines) THEN lines[bl + 2] ELSE [n \in 1..8 |-> I(0)]]

\* element_section_lines[block_line] and [block_line + 1] (lines 178-179)
HeaderLines(lines, bl) ==
    IF bl + 1 >= Len(lines) THEN Failed("IndexError")
    ELSE [st |-> "ok", l1 |-> lines[bl + 1], l2 |-> lines[bl + 2]]

\* lines 178-209 for the patch starting at (0-based) line bl
DecodePatch(lines, bl) ==
    IF HeaderLines(lines, bl).st # "ok" THEN Failed("IndexError")
    ELSE
    LET h1 == Slice(HeaderLines(lines, bl).l1, 0, 8)
        h2 == Slice(HeaderLines(lines, bl).l2, 0, 8)
    IN  IF Len(h1) # 8 \/ ~AllInt(h1) \/ Len(h2) < 5 \/ ~AllInt(h2)
        THEN Failed("ValueError")
        ELSE
        LET dnpr == IntOf(h1[3])
            dpr == IntOf(h1[4])
            dnps == IntOf(h1[5])
            dps == IntOf(h1[6])
            dnpt == IntOf(h1[7])
            dpt == IntOf(h1[8])
            dwf1 == IntOf(h2[1])
            rk == dnpr + dpr + 1
            sk == dnps + dps + 1
            tk == dnpt + dpt + 1
            rk_end == ((rk + 7) \div 8) + (bl + 2)
            sk_end == rk_end + ((sk + 7) \div 8)
            tkend == sk_end + ((tk + 7) \div 8)
            kr == KnotVector(lines, bl + 2, rk_end, rk)
            ks == KnotVector(lines, rk_end, sk_end, sk)
            kt == KnotVector(lines, sk_end, tkend, tk)
            np_lines == ((dnpr \div 8) + 1) * dnps * dnpt
            weight_start == tkend + np_lines
            weight_end == weight_start + np_lines
            wt == IF dwf1 = 1 THEN LineTokens(lines, weight_start, weight_end) ELSE << >>
        IN  IF ~AllFloat(kr) \/ ~AllFloat(ks) \/ ~AllFloat(kt) \/ ~AllFloat(wt)
            THEN Failed("ValueError")
            ELSE [st |-> "ok",
                  npr |-> dnpr, pr |-> dpr, nps |-> dnps, ps |-> dps,
                  npt |-> dnpt, pt |-> dpt,
                  wf1 |-> dwf1, nisr |-> IntOf(h2[2]), niss |-> IntOf(h2[3]),
                  nist |-> IntOf(h2[4]), imass |-> IntOf(h2[5]),
                  tk_end |-> tkend,
                  knot_r |-> Floats(kr), knot_s |-> Floats(ks), knot_t |-> Floats(kt),
                  weight_value |-> SelectSeq(Floats(wt), NonZero)]

(* ------------------- merge_nurbs_patches: emission --------------------- *)
Rounded(vals) == [n \in 1..Len(vals) |-> Round6(vals[n])]

\* the running patch id written without the + 1
EmitHeader1_OffByOne(pid_no, d) == <<pid_no - 1, 1, d.npr, d.pr, d.nps, d.ps, d.npt, d.pt>>

\* header line 1 as written (line 212)
EmitHeader1(pid_no, d) == <<pid_no, 1, d.npr, d.pr, d.nps, d.ps, d.npt, d.pt>>
\* imass copied through instead of the literal "0"
EmitHeader2_CopyImass(d) == <<d.wf1, d.nisr, d.niss, d.nist, d.imass, 0, 0, 1>>

\* header line 2 as written (line 213)
EmitHeader2(d) == <<d.wf1, d.nisr, d.niss, d.nist, 0, 0, 0, 1>>

\* the knot values written without round(.., 6)
EmitKnots_Unrounded(knot) == knot

\* the knot values written by the three while loops (215-246)
EmitKnots(knot) == Rounded(knot)

\* the connectivity ids written (248-259)
EmitConnectivity(nodenum, cnt) == [n \in 1..cnt |-> nodenum + n]

\* the weight loop (260-275): weight_value[l] is indexed for every
\* l in range(npr*npt*nps) unless the list is empty
WeightLoopFails(weights, cnt) == weights # << >> /\ Len(weights) < cnt
EmitWeights(weights, cnt) == IF weights = << >> THEN << >> ELSE SubSeq(weights, 1, cnt)


(* ------------------------------ inputs --------------------------------- *)
SeqsUpTo(S, n) == UNION {[1..m -> S] : m \in 0..n}

One == FloatOf(I(1))         \* the float 1.0
Third == One \div 3          \* the float 0.3333333

\* lines a *NODE section may hold: blank, '$#' comment, well-formed,
\* well-formed with a trailing token, short, real first token, bad coordinate
NodeLineSet ==
    { << >>,
      <<W, W>>,
      <<I(1), R(One), R(0), R(0)>>,
      <<I(2), I(0), R(One), R(Third)>>,
      <<I(3), R(0), R(0), R(One), W>>,
      <<I(4), R(One)>>,
      <<R(One), R(0), R(0), R(0)>>,
      <<I(5), R(0), W, R(0)>> }

NodeContents == {NoSection} \cup {Found(body) : body \in SeqsUpTo(NodeLineSet, MaxLines)}

\* node tables as extraction can return them: ids in any order, repeated or not
NodePool == {<<id, c[1], c[2], c[3]>> : id \in {1, 2, 5}, c \in {<<One, 0, 0>>, <<0, One, 2 * One>>}}
NodeTables == SeqsUpTo(NodePool, MaxNodes)

AngleLists == SeqsUpTo({90, 180, 270}, MaxAngles)
AxisSet == Axes \cup {"w"}

\* the patches a section is laid out from: header values, the number of
\* tokens beyond npr+pr+1 on the last r-knot line, and the weight block
\* style: "exact" npr non-zero weights per fiber, "pad" each weight line
\* filled to 8 columns with 0.0, "zero" a genuine 0.0 among the weights
PatchCatalog ==
    { [pid |-> 1, npr |-> 2, pr |-> 1, nps |-> 1, ps |-> 0, npt |-> 1, pt |-> 0,
       wf1 |-> 1, aux |-> <<2, 2, 2, 1, 0, 0, 0>>, extra |-> 0, wstyle |-> "exact"],
      [pid |-> 3, npr |-> 2, pr |-> 1, nps |-> 1, ps |-> 0, npt |-> 1, pt |-> 0,
       wf1 |-> 0, aux |-> <<3, 3, 3, 0, 0, 0, 1>>, extra |-> 1, wstyle |-> "exact"],
      [pid |-> 1, npr |-> 2, pr |-> 1, nps |-> 2, ps |-> 1, npt |-> 1, pt |-> 0,
       wf1 |-> 1, aux |-> <<2, 2, 2, 0, 0, 0, 0>>, extra |-> 0, wstyle |-> "zero"],
      [pid |-> 1, npr |-> 1, pr |-> 0, nps |-> 1, ps |-> 0, npt |-> 1, pt |-> 0,
       wf1 |-> 1, aux |-> <<1, 1, 1, 0, 0, 0, 0>>, extra |-> 0, wstyle |-> "pad"],
      [pid |-> 1, npr |-> 8, pr |-> 1, nps |-> 1, ps |-> 0, npt |-> 1, pt |-> 0,
       wf1 |-> 1, aux |-> <<2, 2, 2, 0, 0, 0, 0>>, extra |-> 0, wstyle |-> "exact"],
      [pid |-> 1, npr |-> 9, pr |-> 1, nps |-> 1, ps |-> 0, npt |-> 1, pt |-> 0,
       wf1 |-> 0, aux |-> <<2, 2, 2, 0, 0, 0, 0>>, extra |-> 0, wstyle |-> "exact"] }

\* a clamped knot vector of n + p + 1 values: p+1 zeros, interior, p+1 ones
KnotTokens(n, p) ==
    [m \in 1..(n + p + 1) |-> IF m <= p + 1 THEN R(0) ELSE IF m > n THEN R(One) ELSE R(Third)]

\* tokens written 8 to a line, the last line ragged
RECURSIVE Chunk8(_)
Chunk8(toks) ==
    IF toks = << >> THEN << >>
    ELSE IF Len(toks) <= 8 THEN <<toks>>
    ELSE <<SubSeq(toks, 1, 8)>> \o Chunk8(SubSeq(toks, 9, Len(toks)))

PadTo8(line) == line \o [m \in 1..(8 - Len(line)) |-> R(0)]

FiberWeights(p, f) ==
    LET w == [m \in 1..p.npr |-> IF p.wstyle = "zero" /\ f = 1 /\ m = 1 THEN R(0) ELSE R(One)]
        ls == Chunk8(w)
    IN  IF p.wstyle = "pad" THEN [m \in 1..Len(ls) |-> PadTo8(ls[m])] ELSE ls

RECURSIVE FiberBlock(_, _, _)
FiberBlock(p, f, weights) ==
    IF f > p.nps * p.npt THEN << >>
    ELSE (IF weights THEN FiberWeights(p, f) ELSE Chunk8([m \in 1..p.npr |-> I(m)]))
         \o FiberBlock(p, f + 1, weights)

\* one patch in the source layout: two header lines, the three knot
\* vectors, ceil(npr/8)*nps*npt connectivity lines and, when wf1 = 1, a
\* weight block of the same line count
PatchLines(p, no) ==
    << <<I(no), I(p.pid), I(p.npr), I(p.pr), I(p.nps), I(p.ps), I(p.npt), I(p.pt)>>,
       <<I(p.wf1)>> \o [m \in 1..7 |-> I(p.aux[m])] >>
    \o Chunk8(KnotTokens(p.npr, p.pr) \o [m \in 1..p.extra |-> R(One)])
    \o Chunk8(KnotTokens(p.nps, p.ps))
    \o Chunk8(KnotTokens(p.npt, p.pt))
    \o FiberBlock(p, 1, FALSE)
    \o (IF p.wf1 = 1 THEN FiberBlock(p, 1, TRUE) ELSE << >>)

RECURSIVE SectionLines(_, _)
SectionLines(ps, no) ==
    IF ps = << >> THEN << >>
    ELSE PatchLines(Head(ps), no) \o SectionLines(Tail(ps), no + 1)

\* the text after the keyword line: an optional '$#' comment line, then the
\* laid-out patches, possibly cut short
PatchContents ==
    {NoKeyword}
    \cup UNION { {Found(SubSeq(SectionLines(ps, 1), 1, cut)) : cut \in 0..Len(SectionLines(ps, 1))} :
                    ps \in SeqsUpTo(PatchCatalog, MaxPatches) }
    \cup { Found(<< <<W, W>> >> \o SectionLines(ps, 1)) : ps \in SeqsUpTo(PatchCatalog, MaxPatches) }

(* ------------------------------- state --------------------------------- *)
VARIABLES
    content_node,          \* the body of the *NODE section, or NoSection
    nodes_data,            \* extract_node_coordinates: the list returned
    ex_pc,                 \* "idle", "call", "returned", "IndexError"
    original_nodes_data,   \* patches_transformed_nodes: arguments
    angles,
    axis_of_rotation,
    merged_nodes,          \* ... and locals
    transformed_nodes,
    angle_idx,             \* angles already processed by the for loop
    keywrdNodes,           \* the rows of the returned *NODE string
    pn_pc,                 \* "idle", "loop", "transformed", "returned",
                           \* "InvalidAxis", "EmptyMax"
    content_patch,         \* text after *ELEMENT_SOLID_NURBS_PATCH, or NoKeyword
    inital_nurbs_patches,
    element_section_lines,
    i, j,                  \* merge_nurbs_patches: loop indices
    tk_end, nps, npt, wf1, npr,
    block_line,
    patch_id, node_num,
    keywrdNurbs,           \* the patches written so far
    mp_pc                  \* "idle", "wait", "call", "copy", "patch", "returned",
                           \* "AttributeError", "IndexError", "ValueError",
                           \* "WeightIndexError", "UnboundLocalError"

exvars == <<content_node, nodes_data, ex_pc>>
pnvars == <<original_nodes_data, axis_of_rotation, merged_nodes, transformed_nodes,
            angle_idx, keywrdNodes, pn_pc>>
mpvars == <<content_patch, inital_nurbs_patches, element_section_lines, i, j, tk_end,
            nps, npt, wf1, npr, block_line, patch_id, node_num, keywrdNurbs, mp_pc>>
vars == <<exvars, pnvars, angles, mpvars>>

(* ------------------- extract_node_coordinates (11-39) ------------------ *)
ExtractNodeCoordinates ==
    /\ ex_pc = "call"
    /\ LET res == extract_node_coordinates(content_node)
       IN  /\ ex_pc' = res.st
           /\ nodes_data' = res.nodes
    /\ UNCHANGED <<content_node, pnvars, angles, mpvars>>

(* ------------------- patches_transformed_nodes (108-140) --------------- *)
\* line 123: transformed_nodes = transform_nodes(original_nodes_data, angle, axis)
TransformStep ==
    /\ pn_pc = "loop"
    /\ angle_idx < Len(angles)
    /\ LET res == transform_nodes(original_nodes_data, angles[angle_idx + 1], axis_of_rotation)
       IN  IF res.st = "returned"
           THEN /\ transformed_nodes' = res.nodes
                /\ pn_pc' = "transformed"
           ELSE /\ pn_pc' = res.st
                /\ UNCHANGED transformed_nodes
    /\ UNCHANGED <<exvars, original_nodes_data, axis_of_rotation, merged_nodes, angle_idx,
                   keywrdNodes, angles, mpvars>>

\* lines 126-132: max of the merged ids, renumbering, merge and sort
RenumberMergeStep ==
    /\ pn_pc = "transformed"
    /\ IF merged_nodes = << >> /\ original_nodes_data = << >>
       THEN /\ pn_pc' = "EmptyMax"
            /\ UNCHANGED <<merged_nodes, angle_idx>>
       ELSE LET max_node_number == IF merged_nodes # << >> THEN MaxId(merged_nodes)
                                   ELSE MaxId(original_nodes_data)
                updated_transformed_nodes == update_node_numbers(transformed_nodes, max_node_number)
            IN  /\ merged_nodes' = merge_nodes(merged_nodes, updated_transformed_nodes)
                /\ angle_idx' = angle_idx + 1
                /\ pn_pc' = "loop"
    /\ UNCHANGED <<exvars, original_nodes_data, axis_of_rotation, transformed_nodes,
                   keywrdNodes, angles, mpvars>>

\* lines 135-140
ReturnNodes ==
    /\ pn_pc = "loop"
    /\ angle_idx = Len(angles)
    /\ keywrdNodes' = NodeRows(merged_nodes)
    /\ pn_pc' = "returned"
    /\ UNCHANGED <<exvars, original_nodes_data, axis_of_rotation, merged_nodes,
                   transformed_nodes, angle_idx, angles, mpvars>>

(* ------------------- merge_nurbs_patches (142-278) --------------------- *)
\* lines 153-163
SearchSection ==
    /\ mp_pc = "call"
    /\ IF ~content_patch.found
       THEN /\ mp_pc' = "AttributeError"
            /\ UNCHANGED element_section_lines
       ELSE /\ element_section_lines' = element_lines_of(content_patch.body)
            /\ mp_pc' = "copy"
    /\ patch_id' = 0
    /\ node_num' = 0
    /\ i' = 0
    /\ UNCHANGED <<exvars, pnvars, angles, content_patch, inital_nurbs_patches, j, tk_end,
                   nps, npt, wf1, npr, block_line, keywrdNurbs>>

\* lines 165-172: one more copy, the decoder's loop variables reset
BeginCopy ==
    /\ mp_pc = "copy"
    /\ i < Len(angles) + 1
    /\ tk_end' = 0
    /\ nps' = 0
    /\ npt' = 0
    /\ wf1' = 1
    /\ npr' = 0
    /\ j' = 0
    /\ IF inital_nurbs_patches = 0
       THEN i' = i + 1 /\ mp_pc' = "copy"
       ELSE i' = i /\ mp_pc' = "patch"
    /\ UNCHANGED <<exvars, pnvars, angles, content_patch, inital_nurbs_patches,
                   element_section_lines, block_line, patch_id, node_num, keywrdNurbs>>

\* lines 173-277: one iteration of the inner loop, patch j of copy i
PatchStep ==
    /\ mp_pc = "patch"
    /\ LET bl == NextBlockLine(tk_end, npr, nps, npt, wf1)
           d == DecodePatch(element_section_lines, bl)
       IN  /\ block_line' = bl
           /\ IF d.st # "ok"
              THEN /\ mp_pc' = d.st
                   /\ UNCHANGED <<i, j, tk_end, nps, npt, wf1, npr, patch_id, node_num, keywrdNurbs>>
              ELSE LET cnt == d.npr * d.npt * d.nps
                   IN  /\ tk_end' = d.tk_end
                       /\ nps' = d.nps
                       /\ npt' = d.npt
                       /\ wf1' = d.wf1
                       /\ npr' = d.npr
                       /\ IF WeightLoopFails(d.weight_value, cnt)
                          THEN /\ mp_pc' = "WeightIndexError"
                               /\ UNCHANGED <<i, j, patch_id, node_num, keywrdNurbs>>
                          ELSE IF cnt <= 0 /\ node_num = 0
                          \* node_num = k with k never bound by the for loop
                          THEN /\ mp_pc' = "UnboundLocalError"
                               /\ UNCHANGED <<i, j, patch_id, node_num, keywrdNurbs>>
                          ELSE /\ keywrdNurbs' = Append(keywrdNurbs,
                                    [copy |-> i, at |-> bl,
                                     header1 |-> EmitHeader1(patch_id + 1, d),
                                     header2 |-> EmitHeader2(d),
                                     knot_r |-> EmitKnots(d.knot_r),
                                     knot_s |-> EmitKnots(d.knot_s),
                                     knot_t |-> EmitKnots(d.knot_t),
                                     connectivity |-> EmitConnectivity(node_num, cnt),
                                     weights |-> EmitWeights(d.weight_value, cnt)])
                               /\ node_num' = IF cnt > 0 THEN node_num + cnt ELSE node_num
                               /\ patch_id' = patch_id + 1
                               /\ IF j + 1 = inital_nurbs_patches
                                  THEN i' = i + 1 /\ j' = j + 1 /\ mp_pc' = "copy"
                                  ELSE i' = i /\ j' = j + 1 /\ mp_pc' = "patch"
    /\ UNCHANGED <<exvars, pnvars, angles, content_patch, inital_nurbs_patches,
                   element_section_lines>>

\* line 278
ReturnPatches ==
    /\ mp_pc = "copy"
    /\ i = Len(angles) + 1
    /\ mp_pc' = "returned"
    /\ UNCHANGED <<exvars, pnvars, angles, content_patch, inital_nurbs_patches,
                   element_section_lines, i, j, tk_end, nps, npt, wf1, npr, block_line,
                   patch_id, node_num, keywrdNurbs>>

\* lines 297-300 of the script: the patches are merged once the node
\* string has been returned
CallMergePatches ==
    /\ pn_pc = "returned"
    /\ mp_pc = "wait"
    /\ mp_pc' = "call"
    /\ UNCHANGED <<exvars, pnvars, angles, content_patch, inital_nurbs_patches,
                   element_section_lines, i, j, tk_end, nps, npt, wf1, npr, block_line,
                   patch_id, node_num, keywrdNurbs>>

(* --------------------------- specifications ---------------------------- *)
IdleExtract ==
    /\ content_node = NoSection
    /\ nodes_data = << >>
    /\ ex_pc = "idle"

IdleNodes ==
    /\ original_nodes_data = << >>
    /\ axis_of_rotation = "y"
    /\ merged_nodes = << >>
    /\ transformed_nodes = << >>
    /\ angle_idx = 0
    /\ keywrdNodes = << >>
    /\ pn_pc = "idle"

StartNodes ==
    /\ original_nodes_data \in NodeTables
    /\ merged_nodes = original_nodes_data          \* line 118
    /\ transformed_nodes = << >>
    /\ angle_idx = 0
    /\ keywrdNodes = << >>
    /\ pn_pc = "loop"

PatchLocals ==
    /\ element_section_lines = << >>
    /\ i = 0
    /\ j = 0
    /\ tk_end = 0
    /\ nps = 0
    /\ npt = 0
    /\ wf1 = 1
    /\ npr = 0
    /\ block_line = 0
    /\ patch_id = 0
    /\ node_num = 0
    /\ keywrdNurbs = << >>

IdlePatches ==
    /\ content_patch = NoKeyword
    /\ inital_nurbs_patches = 0
    /\ PatchLocals
    /\ mp_pc = "idle"

\* extract_node_coordinates applied to every section body
InitExtract ==
    /\ content_node \in NodeContents
    /\ nodes_data = << >>
    /\ ex_pc = "call"
    /\ angles = << >>
    /\ IdleNodes
    /\ IdlePatches

NextExtract == ExtractNodeCoordinates

SpecExtract == InitExtract /\ [][NextExtract]_vars

\* patches_transformed_nodes applied to every node table, angle list and axis
InitNodes ==
    /\ IdleExtract
    /\ angles \in AngleLists
    /\ axis_of_rotation \in AxisSet
    /\ StartNodes
    /\ IdlePatches

NextNodes == TransformStep \/ RenumberMergeStep \/ ReturnNodes

SpecNodes == InitNodes /\ [][NextNodes]_vars

\* merge_nurbs_patches applied to every section, angle count and patch count
InitPatches ==
    /\ IdleExtract
    /\ IdleNodes
    /\ angles \in SeqsUpTo({90}, MaxAngles)
    /\ content_patch \in PatchContents
    /\ inital_nurbs_patches \in 0..MaxPatches
    /\ PatchLocals
    /\ mp_pc = "call"

NextPatches == SearchSection \/ BeginCopy \/ PatchStep \/ ReturnPatches

SpecPatches == InitPatches /\ [][NextPatches]_vars

\* the script (lines 290-300): the node string, then the patches, for the
\* y axis, every node table and every complete section of the given count
MainTables == {t \in NodeTables : \A n \in 1..Len(t) : t[n][2] = One}

InitMain ==
    /\ IdleExtract
    /\ angles \in SeqsUpTo({90}, MaxAngles)
    /\ axis_of_rotation = "y"
    /\ original_nodes_data \in MainTables
    /\ merged_nodes = original_nodes_data
    /\ transformed_nodes = << >>
    /\ angle_idx = 0
    /\ keywrdNodes = << >>
    /\ pn_pc = "loop"
    /\ \E ps \in SeqsUpTo(PatchCatalog, MaxPatches) :
          /\ content_patch = Found(SectionLines(ps, 1))
          /\ inital_nurbs_patches = Len(ps)
    /\ PatchLocals
    /\ mp_pc = "wait"

NextMain ==
    \/ TransformStep
    \/ RenumberMergeStep
    \/ ReturnNodes
    \/ CallMergePatches
    \/ SearchSection
    \/ BeginCopy
    \/ PatchStep
    \/ ReturnPatches

SpecMain == InitMain /\ [][NextMain]_vars

(* ------------------------------ properties ----------------------------- *)
\* C1: for every node table and every list of N angles (and a recognised
\* axis) patches_transformed_nodes returns (N+1) * original_count nodes with
\* strictly increasing ids, in N+1 blocks: the original nodes first, then one
\* block per angle in processing order, each block in the original table's
\* node order and each rotated block numbered consecutively.
C1_MergedBlocks ==
    axis_of_rotation \in Axes =>
        /\ pn_pc # "EmptyMax"
        /\ pn_pc = "returned" =>
            LET cnt0 == Len(original_nodes_data)
            IN  /\ Len(keywrdNodes) = (Len(angles) + 1) * cnt0
                /\ \A a, b \in 1..Len(keywrdNodes) :
                        a < b => keywrdNodes[a][1] < keywrdNodes[b][1]
                /\ \A c \in 0..Len(angles), m \in 1..cnt0 :
                        LET row == keywrdNodes[c * cnt0 + m]
                            src == IF c = 0 THEN original_nodes_data[m]
                                   ELSE RotateNode(original_nodes_data[m], angles[c], axis_of_rotation)
                        IN  /\ <<row[2], row[3], row[4]>> = <<Round6(src[2]), Round6(src[3]), Round6(src[4])>>
                            /\ c = 0 => row[1] = src[1]
                            /\ (c > 0 /\ m > 1) => row[1] = keywrdNodes[c * cnt0 + m - 1][1] + 1

\* C2: once the node string is returned, every patch written for copy i has
\* as connectivity the next npr*nps*npt consecutive integers, and each of
\* them is a node id of copy i's block of the merged node table.
C2_ConnectivityInCopyBlock ==
    pn_pc = "returned" =>
        \A m \in 1..Len(keywrdNurbs) :
            LET p == keywrdNurbs[m]
                cnt0 == Len(original_nodes_data)
                first == IF m = 1 THEN 1
                         ELSE keywrdNurbs[m - 1].connectivity[Len(keywrdNurbs[m - 1].connectivity)] + 1
                block == {keywrdNodes[p.copy * cnt0 + n][1] : n \in 1..cnt0}
            IN  /\ Len(p.connectivity) = p.header1[3] * p.header1[5] * p.header1[7]
                /\ \A n \in 1..Len(p.connectivity) : p.connectivity[n] = first + n - 1
                /\ \A n \in 1..Len(p.connectivity) : p.connectivity[n] \in block

\* C3: the m-th patch written carries patch_id m, belongs to copy
\* (m-1) div P and is decoded from the same place as in copy 0, the patches
\* of one copy are in input order, and a call that returns has written
\* exactly P * (N+1) patches.
C3_PatchIds ==
    /\ \A m \in 1..Len(keywrdNurbs) :
          /\ keywrdNurbs[m].header1[1] = m
          /\ keywrdNurbs[m].copy = (m - 1) \div inital_nurbs_patches
          /\ (m > 1 /\ keywrdNurbs[m - 1].copy = keywrdNurbs[m].copy)
                => keywrdNurbs[m - 1].at < keywrdNurbs[m].at
          /\ m > inital_nurbs_patches
                => keywrdNurbs[m].at = keywrdNurbs[m - inital_nurbs_patches].at
    /\ mp_pc = "returned" => Len(keywrdNurbs) = inital_nurbs_patches * (Len(angles) + 1)

\* two patches and three angles: ids 1..8
C3_Witness ==
    /\ mp_pc = "returned"
    /\ inital_nurbs_patches = 2
    /\ Len(angles) = 3
    /\ Len(keywrdNurbs) = 8
    /\ keywrdNurbs[8].header1[1] = 8
    /\ keywrdNurbs[8].copy = 3

\* C4: a patch with wf1 # 1 writes no weights, a patch with wf1 = 1 writes
\* its decoded non-zero weights in source order, and a filtered weight list
\* shorter than npr*nps*npt never makes merge_nurbs_patches fail.
C4_WeightsNeverFail ==
    /\ mp_pc # "WeightIndexError"
    /\ \A m \in 1..Len(keywrdNurbs) :
          LET p == keywrdNurbs[m]
          IN  IF p.header2[1] # 1 THEN p.weights = << >>
              ELSE p.weights = DecodePatch(element_section_lines, p.at).weight_value

\* C5 as stated: every knot vector read from knot lines the section holds
\* is written with exactly n + p + 1 values, and a copy differs from copy 0
\* only in patch id and connectivity.
C5_KnotsTruncated ==
    \A m \in 1..Len(keywrdNurbs) :
        LET p == keywrdNurbs[m]
            h == p.header1
            e0 == p.at + 2 + ((h[3] + h[4] + 1 + 7) \div 8) + ((h[5] + h[6] + 1 + 7) \div 8)
                    + ((h[7] + h[8] + 1 + 7) \div 8)
        IN  /\ e0 <= Len(element_section_lines) =>
                  /\ Len(p.knot_r) = h[3] + h[4] + 1
                  /\ Len(p.knot_s) = h[5] + h[6] + 1
                  /\ Len(p.knot_t) = h[7] + h[8] + 1
            /\ m > inital_nurbs_patches =>
                  LET q == keywrdNurbs[m - inital_nurbs_patches]
                  IN  /\ SubSeq(p.header1, 2, 8) = SubSeq(q.header1, 2, 8)
                      /\ <<p.header2, p.knot_r, p.knot_s, p.knot_t, p.weights>>
                            = <<q.header2, q.knot_r, q.knot_s, q.knot_t, q.weights>>

\* C5 amended: every knot vector written is the whole flattening of the
\* tokens on its ceil((n+p+1)/8) lines, each rounded to 6 decimals and not
\* truncated, and a copy differs from copy 0 only in patch id and
\* connectivity.
C5_KnotsFlattened ==
    \A m \in 1..Len(keywrdNurbs) :
        LET p == keywrdNurbs[m]
            h == p.header1
            r0 == p.at + 2
            s0 == r0 + ((h[3] + h[4] + 1 + 7) \div 8)
            t0 == s0 + ((h[5] + h[6] + 1 + 7) \div 8)
            e0 == t0 + ((h[7] + h[8] + 1 + 7) \div 8)
        IN  /\ p.knot_r = Rounded(Floats(LineTokens(element_section_lines, r0, s0)))
            /\ p.knot_s = Rounded(Floats(LineTokens(element_section_lines, s0, t0)))
            /\ p.knot_t = Rounded(Floats(LineTokens(element_section_lines, t0, e0)))
            /\ m > inital_nurbs_patches =>
                  LET q == keywrdNurbs[m - inital_nurbs_patches]
                  IN  /\ SubSeq(p.header1, 2, 8) = SubSeq(q.header1, 2, 8)
                      /\ <<p.header2, p.knot_r, p.knot_s, p.knot_t, p.weights>>
                            = <<q.header2, q.knot_r, q.knot_s, q.knot_t, q.weights>>

\* a rotated copy of a patch whose last r-knot line carries an extra token,
\* and whose interior knots change under rounding
C5_Witness ==
    \E m \in 1..Len(keywrdNurbs) :
        /\ m > inital_nurbs_patches
        /\ Len(keywrdNurbs[m].knot_r) > keywrdNurbs[m].header1[3] + keywrdNurbs[m].header1[4] + 1
        /\ \E k \in 1..(m - 1) : \E n \in 1..Len(keywrdNurbs[k].knot_r) :
              keywrdNurbs[k].knot_r[n] = Round6(Third) /\ Round6(Third) # Third

\* C6 as stated: a call returns only if the keyword line was found and the
\* section holds, for every patch written, its two header lines and all of
\* its knot lines.
C6_FailsOnMissingLines ==
    mp_pc = "returned" =>
        /\ content_patch.found
        /\ \A m \in 1..Len(keywrdNurbs) :
              LET p == keywrdNurbs[m]
                  h == p.header1
              IN  /\ p.at + 2 <= Len(element_section_lines)
                  /\ p.at + 2 + ((h[3] + h[4] + 1 + 7) \div 8) + ((h[5] + h[6] + 1 + 7) \div 8)
                        + ((h[7] + h[8] + 1 + 7) \div 8) <= Len(element_section_lines)

\* C6 amended: without the keyword line the call ends in an error and
\* nothing else; a patch is written only if both of its header lines are
\* in the section, so a call that returns found the header lines of all
\* P * (N+1) patches.  (Missing knot lines alone raise nothing.)
C6_FailsOnMissingHeader ==
    /\ ~content_patch.found => (mp_pc \in {"call", "AttributeError"} /\ keywrdNurbs = << >>)
    /\ \A m \in 1..Len(keywrdNurbs) : keywrdNurbs[m].at + 2 <= Len(element_section_lines)
    /\ mp_pc = "returned" => Len(keywrdNurbs) = inital_nurbs_patches * (Len(angles) + 1)
    /\ mp_pc = "IndexError" => block_line + 2 > Len(element_section_lines)

\* the section ends before the header lines of a later patch: the call fails
\* after it has written a patch
C6_Witness ==
    /\ mp_pc = "IndexError"
    /\ content_patch.found
    /\ keywrdNurbs # << >>
    /\ block_line + 2 > Len(element_section_lines)

\* C7: transform_nodes never returns a node table for an axis outside
\* {x, y, z}, whatever the node table and the angle.
C7_InvalidAxisFails ==
    axis_of_rotation \notin Axes => pn_pc # "transformed"

\* C8: extract_node_coordinates never fails on the body of a *NODE section
\* and returns exactly the well-formed lines (integer first token, three
\* reals next), in input order; an empty body gives the empty table.
C8_ExtractNeverFails ==
    (content_node.found /\ ex_pc # "call") =>
        /\ ex_pc = "returned"
        /\ LET WellFormed(ln) == /\ Len(ln) >= 4
                                 /\ IsInt(ln[1])
                                 /\ IsFloat(ln[2]) /\ IsFloat(ln[3]) /\ IsFloat(ln[4])
               good == SelectSeq(content_node.body, WellFormed)
           IN  nodes_data = [n \in 1..Len(good) |->
                                <<IntOf(good[n][1]), FloatOf(good[n][2]),
                                  FloatOf(good[n][3]), FloatOf(good[n][4])>>]

\* C9: the first patch of a copy starts at line 0 and patch j >= 1 starts at
\* tk_end + connectivity_lines (+ as many weight lines when wf1 = 1) of
\* patch j-1, with connectivity_lines = ceil(npr/8) * nps * npt.
C9_StartLine ==
    [][mp_pc = "patch" =>
          block_line' = IF j = 0 THEN 0
                        ELSE tk_end + ((npr + 7) \div 8) * nps * npt * (IF wf1 = 1 THEN 2 ELSE 1)]_vars

\* C10 as stated: header line 1 keeps npr, pr, nps, ps, npt, pt and header
\* line 2 keeps wf1, nisr, niss, nist, imass and the other flags of the
\* source; only the patch id, pid (1) and the last field (1) are replaced.
C10_HeaderCopied ==
    \A m \in 1..Len(keywrdNurbs) :
        LET p == keywrdNurbs[m]
            s1 == element_section_lines[p.at + 1]
            s2 == element_section_lines[p.at + 2]
        IN  /\ p.header1 = <<m, 1, IntOf(s1[3]), IntOf(s1[4]), IntOf(s1[5]),
                             IntOf(s1[6]), IntOf(s1[7]), IntOf(s1[8])>>
            /\ \A n \in 1..7 : n <= Len(s2) => p.header2[n] = IntOf(s2[n])
            /\ p.header2[8] = 1

\* C10 amended: header line 1 keeps npr, pr, nps, ps, npt, pt and header line
\* 2 keeps wf1, nisr, niss, nist; the patch id is the running counter, pid is
\* written as 1 and fields 5-8 of header line 2 (imass and the flags after
\* it) are written as 0, 0, 0, 1 whatever the source holds.
C10_HeaderNormalised ==
    \A m \in 1..Len(keywrdNurbs) :
        LET p == keywrdNurbs[m]
            s1 == element_section_lines[p.at + 1]
            s2 == element_section_lines[p.at + 2]
        IN  /\ p.header1 = <<m, 1, IntOf(s1[3]), IntOf(s1[4]), IntOf(s1[5]),
                             IntOf(s1[6]), IntOf(s1[7]), IntOf(s1[8])>>
            /\ p.header2 = <<IntOf(s2[1]), IntOf(s2[2]), IntOf(s2[3]), IntOf(s2[4]), 0, 0, 0, 1>>

\* a rotated copy of a patch whose source carries imass = 1 and pid = 3
C10_Witness ==
    \E m \in 1..Len(keywrdNurbs) :
        /\ m > inital_nurbs_patches
        /\ IntOf(element_section_lines[keywrdNurbs[m].at + 2][5]) # 0
        /\ \E k \in 1..Len(keywrdNurbs) : IntOf(element_section_lines[keywrdNurbs[k].at + 1][2]) = 3

=============================================================================
